---- MODULE Spec2Model ----
(***************************************************************************)
(* vrr: the image loader (src/image_loader.rs).  One interactive thread     *)
(* owns the catalog cursor and calls request_image / clear_cache / images; *)
(* worker tasks spawned on the rayon pool run the closure of request_image *)
(* step by step, taking the table lock only for the staleness check and    *)
(* for the final insert.                                                   *)
(***************************************************************************)
EXTENDS Integers, Sequences, FiniteSets, TLC

\* ---------------------------------------------------------------- bounds
NumImages == 2      \* catalog length (paths found by from_path)
MaxPreload == 1     \* largest preload radius the loader is constructed with
MaxTasks == 3       \* cap on the worker tasks spawned in one run
MaxLen == 5         \* longest catalog of the calls made on a catalog of their own
MaxRadius == 4      \* largest radius of those calls
MaxPending == 6     \* most Pending NATIVE entries of the tables request_image
                    \* is called on
MaxOthers == 2      \* most Loaded entries, and most THUMBNAIL entries, of them
MaxParallelism == 4 \* largest parallelism available_parallelism reports

\* the pool size from_paths falls back to when available_parallelism is unknown
NumThreads == 2

\* ------------------------------------------------------------ data model
THUMBNAIL == "THUMBNAIL"
FULLHD == "FULLHD"
NATIVE == "NATIVE"

\* enum ImageResolution, in declaration order
ImageResolution == {THUMBNAIL, FULLHD, NATIVE}


\* ImageLoader.images: the catalog; an ImageRef is identified by its position
images == [i \in 0..(NumImages - 1) |-> i]

len == NumImages

ImageRef == {images[i] : i \in DOMAIN images}

\* struct ImageRequest
ImageRequest == [reference : ImageRef, resolution : ImageResolution]

new_request(reference, resolution) ==
    [reference |-> reference, resolution |-> resolution]

\* the NATIVE request of the image at position i
native(i) == new_request(images[i], NATIVE)

\* the requests made through request_image directly, besides the NATIVE
\* requests of set and preload: the thumbnail of the first image, as
\* load_all_thumbnails asks for it
DirectRequests == {new_request(images[0], THUMBNAIL)}

\* enum LoadState
Pending == "Pending"
Loaded == "Loaded"
LoadState == {Pending, Loaded}

VARIABLES
    index,      \* ImageLoader.index: the cursor
    preload,    \* ImageLoader.preload: the radius given at construction
    cache,      \* ImageLoader.cache: HashMap<ImageRequest, LoadState>
    tasks,      \* the closures spawned on thread_pool that have not returned,
                \* in spawn order, each with its position
    channel,    \* results sent and not yet received (sender -> receiver)
    spawned,    \* history: number of closures spawned so far
    hist,       \* history, kept until clear_cache first removes an entry:
                \* per request, closures spawned, decodes run, results sent,
                \* images returned by images(), errors logged by images()
    layers,     \* Layers.layers: HashMap<ImageRef, Vec<Layer>>
    pending,    \* the images returned by images() that the loop of run has
                \* not yet passed to add_image
    call,       \* the last call made on a catalog of its own (a loader built
                \* by from_paths on call.len paths), with what it returned
    at,         \* where the interactive thread is: "loop" when it is in no
                \* call, inside add_image the call it is about to make, and
                \* "request_image" while it holds the guard of that call
    lock        \* the Mutex of ImageLoader.cache: "free", "worker" while a
                \* closure holds its guard, "main" while request_image does

vars ==
    <<index, preload, cache, tasks, channel, spawned, hist, layers, pending, call,
      at, lock>>

\* the variables of the loader, of the viewer around it, and of the calls
loader_vars == <<index, preload, cache, tasks, channel, spawned, hist, lock>>
viewer_vars == <<layers, pending, at>>

\* ------------------------------------------------------- HashMap helpers
contains_key(c, req) == req \in DOMAIN c

insert(c, req, state) ==
    [x \in (DOMAIN c) \cup {req} |-> IF x = req THEN state ELSE c[x]]

EmptyMap == [x \in {} |-> Pending]

\* ----------------------------------------------------- locality window
\* Rust's % on isize truncates toward zero
rem(a, b) == IF a >= 0 THEN a % b ELSE -((-a) % b)

\* get_offset: Ok(index) or Err; -1 stands for the Err of get()
get_offset(idx, offset) ==
    LET i == rem(len + idx + offset, len)
    IN  IF i >= 0 /\ i < len THEN i ELSE -1

RECURSIVE radius_from(_, _, _)
radius_from(idx, i, radius) ==
    IF i > radius THEN <<>>
    ELSE LET plus == get_offset(idx, i)
             minus == get_offset(idx, -i)
             a == IF plus >= 0 THEN <<images[plus]>> ELSE <<>>
             b == IF minus >= 0 THEN <<images[minus]>> ELSE <<>>
         IN  a \o b \o radius_from(idx, i + 1, radius)

\* get_radius: the cursor first, then +i, -i for i in 1..=radius
get_radius(idx, radius) ==
    <<images[get_offset(idx, 0)]>> \o radius_from(idx, 1, radius)

Range(s) == {s[i] : i \in DOMAIN s}

\* ------------------------------------------------------------- history
\* hist.of counts, per request, while clear_cache has removed no entry yet
\* (hist.on): closures spawned, decodes run, results sent, images returned by
\* images() and errors logged by images(); from the first removal on hist is
\* Stopped
NoHist == [spawned |-> 0, decoded |-> 0, sent |-> 0, yielded |-> 0, logged |-> 0]

\* the requests the callers make
Tracked == {native(i) : i \in DOMAIN images} \cup DirectRequests

EmptyHist == [on |-> TRUE, of |-> [r \in Tracked |-> NoHist]]
Stopped == [on |-> FALSE, of |-> [r \in Tracked |-> NoHist]]

hist_add(h, r, field) ==
    IF ~h.on THEN h ELSE [h EXCEPT !.of[r][field] = @ + 1]

\* one call of request_image(req) in the table c, which spawned n closures
hist_call(h, req, n) ==
    IF ~h.on THEN h ELSE [h EXCEPT !.of[req].spawned = @ + n]

hist_removed(h, removed) == IF removed = {} THEN h ELSE Stopped

\* images() took ch from the channel and returned the images of ret
RECURSIVE hist_taken(_, _, _)
hist_taken(h, s, field) ==
    IF s = <<>> THEN h
    ELSE hist_taken([h EXCEPT !.of[Head(s).req][field] = @ + 1], Tail(s), field)

RECURSIVE hist_untaken(_, _, _)
hist_untaken(h, s, field) ==
    IF s = <<>> THEN h
    ELSE hist_untaken([h EXCEPT !.of[Head(s).req][field] = @ - 1], Tail(s), field)

hist_drained(h, ch, ret) ==
    IF ~h.on THEN h
    ELSE hist_taken(hist_untaken(hist_taken(h, ch, "logged"), ret, "logged"),
                    ret, "yielded")

\* ------------------------------------------------------------ worker task
\* position of a spawned closure
\*   queued    spawned; before the debounce test (in the pool's queue or
\*             just taken by a thread)
\*   sleeping  in thread::sleep (debounce), on a pool thread
\*   decoding  passed the staleness check, in SizedImage::from_request
\*   marking   result sent, about to lock the table and insert Loaded
\* a closure that returns leaves tasks
OnThread == {"sleeping", "decoding", "marking"}

\* n_pending: Pending entries at a non-THUMBNAIL resolution
n_pending(c) ==
    Cardinality({r \in DOMAIN c : c[r] = Pending /\ r.resolution # THUMBNAIL})

\* the debounce delay with the long sleep from five pending entries on
delay_ms_from_five(n) == IF n > 0 THEN (IF n >= 5 THEN 100 ELSE 10) ELSE 0

\* the debounce delay of the closure, in ms (0: no sleep)
delay_ms(n) == IF n > 0 THEN (IF n > 5 THEN 100 ELSE 10) ELSE 0

\* pruned is history: clear_cache removed the request of the closure before
\* the closure ran its staleness check
new_task(req, n) ==
    [req |-> req, delay_ms |-> delay_ms(n), pc |-> "queued", pruned |-> FALSE]

\* request_image with the table test dropped: every call inserts Pending and
\* spawns
request_image_no_dedup(c, ts, req) ==
    [cache |-> insert(c, req, Pending),
     tasks |-> Append(ts, new_task(req, n_pending(c)))]

\* request_image with the table test narrowed to Pending entries: a call for
\* a Loaded entry inserts Pending and spawns again
request_image_pending_only(c, ts, req) ==
    IF contains_key(c, req) /\ c[req] = Pending
    THEN [cache |-> c, tasks |-> ts]
    ELSE [cache |-> insert(c, req, Pending),
          tasks |-> Append(ts, new_task(req, n_pending(c)))]

\* request_image up to the spawn: the table and the task queue after the call
request_image(c, ts, req) ==
    IF contains_key(c, req)
    THEN [cache |-> c, tasks |-> ts]
    ELSE [cache |-> insert(c, req, Pending),
          tasks |-> Append(ts, new_task(req, n_pending(c)))]

\* the calls request_image makes for the requests reqs in turn, from the
\* table c and the queue ts, with the history h of the calls
RECURSIVE request_each(_, _, _, _)
request_each(c, ts, h, reqs) ==
    IF reqs = <<>> THEN [cache |-> c, tasks |-> ts, hist |-> h]
    ELSE LET st == request_image(c, ts, Head(reqs))
         IN  request_each(st.cache, st.tasks,
                          hist_call(h, Head(reqs), Len(st.tasks) - Len(ts)),
                          Tail(reqs))

\* set(index): the cursor moves, then the NATIVE request of the new position
set_requests(i) == <<native(i)>>

next_index(idx) == (idx + 1) % len
prev_index(idx) == (idx + len - 1) % len

\* preload(radius): a NATIVE request per reference of get_radius, in order
preload_requests(idx, radius) ==
    LET refs == get_radius(idx, radius)
    IN  [i \in DOMAIN refs |-> new_request(refs[i], NATIVE)]

\* the retain predicate without the THUMBNAIL exemption
keeps_window_only(idx, radius, req) ==
    req.reference \in Range(get_radius(idx, radius))

\* the retain predicate with the exemption on the wrong resolution
keeps_native_exempt(idx, radius, req) ==
    \/ req.reference \in Range(get_radius(idx, radius))
    \/ req.resolution = NATIVE

\* the retain predicate of clear_cache
keeps(idx, radius, req) ==
    \/ req.reference \in Range(get_radius(idx, radius))
    \/ req.resolution = THUMBNAIL

\* clear_cache: the table after retain
clear_cache(c, idx, radius) ==
    [req \in {r \in DOMAIN c : keeps(idx, radius, r)} |-> c[req]]

\* cached(): the keys of the table
cached(c) == DOMAIN c

\* a result on the channel: Result<SizedImage>, Ok(image of req) or Err
result(req, ok) == [req |-> req, ok |-> ok]

\* the decode is a pure function of the file: the files of Corrupt fail
\* (Metadata::new_from_path or decode_turbojpeg returns Err), the others
\* decode
Corrupt == {images[len - 1]}

\* SizedImage::from_request, as the Result the closure sends
from_request(req) == result(req, req.reference \notin Corrupt)

\* the loop of images() written as while let Ok(Ok(image)): it ends at the
\* first Err result
RECURSIVE images_loop_until_err(_, _)
images_loop_until_err(ch, acc) ==
    IF ch = <<>> \/ ~Head(ch).ok THEN acc
    ELSE images_loop_until_err(Tail(ch), Append(acc, Head(ch)))

\* images(): the while-let loop over try_recv; an Ok result is pushed, an
\* Err result is logged
RECURSIVE images_loop(_, _)
images_loop(ch, acc) ==
    IF ch = <<>> THEN acc
    ELSE IF Head(ch).ok
         THEN images_loop(Tail(ch), Append(acc, Head(ch)))
         ELSE images_loop(Tail(ch), acc)

images_returned(ch) == images_loop(ch, <<>>)

\* images() forgetting the requests whose results it received
images_cache_forget(c, ch) ==
    [r \in (DOMAIN c) \ {ch[i].req : i \in DOMAIN ch} |-> c[r]]

\* images() reads the receiver only: the table after the call
images_cache(c, ch) == c

\* a closure that sends decoded images only and returns on a failed decode
send_ok_only(ch, res) == IF res.ok THEN Append(ch, res) ELSE ch

\* a send that on an error drops the results waiting on the channel
send_err_replaces(ch, res) == IF res.ok THEN Append(ch, res) ELSE <<res>>

\* sender.send(sized_image): the Result goes to the tail of the channel,
\* Ok or Err alike
send(ch, res) == Append(ch, res)

\* the closures whose request this prune removes before their staleness check
mark_pruned(ts, removed) ==
    [t \in DOMAIN ts |->
        IF ts[t].req \in removed /\ ts[t].pc \in {"queued", "sleeping"}
        THEN [ts[t] EXCEPT !.pruned = TRUE]
        ELSE ts[t]]

\* ------------------------------------------------------------- layers
\* struct Layer, without the GPU resources: the image and its resolution
Layer == [image_ref : ImageRef, resolution : ImageResolution]

\* create_layer_from_sized_image: the layer of a decoded image
layer_of(si) ==
    [image_ref |-> si.req.reference, resolution |-> si.req.resolution]

\* Layers::new: layers is HashMap::new()
EmptyLayers == [x \in {} |-> <<>>]

\* the derived Ord of ImageResolution: the position in the declaration
resolution_key(res) ==
    CASE res = THUMBNAIL -> 0
      [] res = FULLHD -> 1
      [] res = NATIVE -> 2

\* min_by_key in the place of max_by_key: the first of the layers with the
\* least resolution
RECURSIVE min_by_key(_, _)
min_by_key(best, ls) ==
    IF ls = <<>> THEN best
    ELSE min_by_key(IF resolution_key(Head(ls).resolution)
                          < resolution_key(best.resolution)
                    THEN Head(ls) ELSE best,
                    Tail(ls))

\* Iterator::max_by_key over the layers after best: the last of the layers
\* with the greatest key
RECURSIVE max_by_key(_, _)
max_by_key(best, ls) ==
    IF ls = <<>> THEN best
    ELSE max_by_key(IF resolution_key(Head(ls).resolution)
                          >= resolution_key(best.resolution)
                    THEN Head(ls) ELSE best,
                    Tail(ls))

\* get_best_layer: None is <<>>, Some(layer) is <<layer>>
get_best_layer(ls) ==
    IF ls = <<>> THEN <<>> ELSE <<max_by_key(Head(ls), Tail(ls))>>

\* get_layer: None when the map has no entry of iref
get_layer(lm, iref) ==
    IF iref \notin DOMAIN lm THEN <<>> ELSE get_best_layer(lm[iref])

\* a retain that removes nothing
retain_all(lm, reqs) == lm

\* retain keeping the layers of every reference that has some request in
\* reqs, whatever the resolution
retain_by_reference(lm, reqs) ==
    LET kept(iref) ==
            SelectSeq(lm[iref], LAMBDA l : \E req \in reqs : req.reference = iref)
    IN  [iref \in {x \in DOMAIN lm : kept(x) # <<>>} |-> kept(iref)]

\* retain without the test of is_empty: an entry left with no layer stays
\* in the map
retain_keeps_empty(lm, reqs) ==
    [iref \in DOMAIN lm |->
        SelectSeq(lm[iref],
                  LAMBDA l : \E req \in reqs :
                                 /\ req.reference = iref
                                 /\ req.resolution = l.resolution)]

\* Layers::retain: of each entry the layers whose resolution some request of
\* reqs has with the reference of the entry; an entry left empty is dropped
retain(lm, reqs) ==
    LET kept(iref) ==
            SelectSeq(lm[iref],
                      LAMBDA l : \E req \in reqs :
                                     /\ req.reference = iref
                                     /\ req.resolution = l.resolution)
    IN  [iref \in {x \in DOMAIN lm : kept(x) # <<>>} |-> kept(iref)]

\* add_layer without the retain of the Some arm: the layer is pushed next to
\* the one of its resolution
add_layer_push(lm, layer) ==
    IF layer.image_ref \in DOMAIN lm
    THEN [lm EXCEPT ![layer.image_ref] = Append(@, layer)]
    ELSE [x \in (DOMAIN lm) \cup {layer.image_ref} |->
             IF x = layer.image_ref THEN <<layer>> ELSE lm[x]]

\* Layers::add_layer
add_layer(lm, layer) ==
    IF layer.image_ref \in DOMAIN lm
    THEN [lm EXCEPT ![layer.image_ref] =
             Append(SelectSeq(@, LAMBDA l : l.resolution # layer.resolution),
                    layer)]
    ELSE [x \in (DOMAIN lm) \cup {layer.image_ref} |->
             IF x = layer.image_ref THEN <<layer>> ELSE lm[x]]

\* ------------------------------------------------------------- the pool
\* what thread::available_parallelism() returns: 0 is its Err, p > 0 is Ok(p)
Parallelism == 0..MaxParallelism

\* a pool of at least two threads: max(p, 2), and 2 for the Err
num_threads_at_least_two(available) ==
    IF available < NumThreads THEN NumThreads ELSE available

\* num_threads of from_paths:
\* available_parallelism().unwrap_or(NonZeroUsize::new(2).unwrap()).get()
num_threads(available) ==
    IF available = 0 THEN NumThreads ELSE available

\* ------------------------------------------------------- catalog calls
\* The catalog operations on a loader of their own, built by from_paths on n
\* paths (n may be 0) with the cursor at idx; a reference is the position of
\* its path.  A position is 0..n-1; -1 is the Err of get(); -2 is the panic
\* of a remainder with divisor 0.

\* get(index): the position, or Err
get_of(n, i) == IF i >= 0 /\ i < n THEN i ELSE -1

\* get_offset without len added before the remainder
get_offset_no_len(n, idx, offset) ==
    IF n = 0 THEN -2 ELSE get_of(n, rem(idx + offset, n))

\* get_offset: (len + index + offset) % len in isize, cast to usize for get
get_offset_of(n, idx, offset) ==
    IF n = 0 THEN -2 ELSE get_of(n, rem(n + idx + offset, n))

\* the loop of get_radius: +i then -i for i in 1..=radius, the Err skipped
RECURSIVE radius_loop_of(_, _, _, _)
radius_loop_of(n, idx, i, radius) ==
    IF i > radius THEN <<>>
    ELSE LET plus == get_offset_of(n, idx, i)
             minus == get_offset_of(n, idx, -i)
             a == IF plus >= 0 THEN <<plus>> ELSE <<>>
             b == IF minus >= 0 THEN <<minus>> ELSE <<>>
         IN  a \o b \o radius_loop_of(n, idx, i + 1, radius)

\* what a call returns: Ok with its value, Err, or a panic; with the cursor
\* after the call and the requests passed to request_image
returns(ret, value, cursor, requests) ==
    [ret |-> ret, value |-> value, index |-> cursor, requests |-> requests]

\* get_radius with the loop started at 0: for i in 0..=radius
get_radius_from_zero(n, idx, radius) ==
    IF get_offset_of(n, idx, 0) < 0
    THEN returns("panic", <<>>, idx, <<>>)
    ELSE returns("Ok",
                 <<get_offset_of(n, idx, 0)>> \o radius_loop_of(n, idx, 0, radius),
                 idx, <<>>)

\* get_radius(radius): get_offset(0).unwrap() first
get_radius_of(n, idx, radius) ==
    IF get_offset_of(n, idx, 0) < 0
    THEN returns("panic", <<>>, idx, <<>>)
    ELSE returns("Ok",
                 <<get_offset_of(n, idx, 0)>> \o radius_loop_of(n, idx, 1, radius),
                 idx, <<>>)

\* preload asking for every image of the catalog, whatever the radius
preload_of_whole_catalog(n, idx, radius) ==
    IF n = 0 THEN returns("panic", <<>>, idx, <<>>)
    ELSE returns("Ok", <<>>, idx,
                 [k \in 1..n |-> [reference |-> k - 1, resolution |-> NATIVE]])

\* preload(radius): a NATIVE request for each reference of get_radius
preload_of(n, idx, radius) ==
    LET refs == get_radius_of(n, idx, radius)
    IN  IF refs.ret = "panic" THEN refs
        ELSE returns("Ok", <<>>, idx,
                     [k \in DOMAIN refs.value |-> [reference |-> refs.value[k],
                                                    resolution |-> NATIVE]])

\* set(index): self.index = index, then get(index)? for the request
set_of(n, idx, i) ==
    IF get_of(n, i) < 0
    THEN returns("Err", <<>>, i, <<>>)
    ELSE returns("Ok", <<>>, i, <<[reference |-> i, resolution |-> NATIVE]>>)

\* next_image without the remainder: set(index + 1)
next_image_no_wrap(n, idx) ==
    IF n = 0 THEN returns("panic", <<>>, idx, <<>>)
    ELSE set_of(n, idx, idx + 1)

\* next_image: set((index + 1) % len)
next_image_of(n, idx) ==
    IF n = 0 THEN returns("panic", <<>>, idx, <<>>)
    ELSE set_of(n, idx, (idx + 1) % n)

\* prev_image stopping at the first image: set(index.saturating_sub(1))
prev_image_saturating(n, idx) ==
    IF n = 0 THEN returns("panic", <<>>, idx, <<>>)
    ELSE set_of(n, idx, IF idx = 0 THEN 0 ELSE idx - 1)

\* prev_image: set((index + len - 1) % len)
prev_image_of(n, idx) ==
    IF n = 0 THEN returns("panic", <<>>, idx, <<>>)
    ELSE set_of(n, idx, (idx + n - 1) % n)

\* the cursors of a loader on n paths: index 0 of from_paths, or where an
\* in-range set has put it
Cursors(n) == IF n = 0 THEN {0} ELSE 0..(n - 1)

\* no call made yet
NoCall == [op |-> "none"]

\* the call op on n paths with the cursor at idx and the argument arg, and
\* what it returned
called(op, n, idx, arg, out) ==
    [op |-> op, len |-> n, index |-> idx, arg |-> arg, out |-> out]

\* the tables of a loader on n paths with the cursor at idx that hold NATIVE
\* requests only: the request of the cursor, which set has made and
\* clear_cache keeps, and any others
Tables(n, idx) ==
    LET all == {[reference |-> i, resolution |-> NATIVE] : i \in 0..(n - 1)}
        cursor == {r \in all : r.reference = idx}
    IN  UNION {[S -> LoadState] :
                   S \in {X \in SUBSET all : cursor \subseteq X}}

\* the table and the closures spawned after the calls of request_image that
\* a call returning out has made, from the table c
requested_in(c, out) ==
    LET st == request_each(c, <<>>, Stopped, out.requests)
    IN  [cache |-> st.cache, tasks |-> st.tasks]

\* the call op made with the table c, and the table and closures after it
called_in(op, n, idx, arg, c, out) ==
    [op |-> op, len |-> n, index |-> idx, arg |-> arg, out |-> out,
     table |-> c, after |-> requested_in(c, out)]

\* a table with p Pending and l Loaded NATIVE entries, th Pending THUMBNAIL
\* entries and fh Pending FULLHD entries, of the references 0, 1, ...
table_of(p, l, th, fh) ==
    LET entries ==
            {<<[reference |-> i, resolution |-> NATIVE], Pending>> :
                 i \in 0..(p - 1)}
            \cup {<<[reference |-> i, resolution |-> NATIVE], Loaded>> :
                      i \in p..(p + l - 1)}
            \cup {<<[reference |-> i, resolution |-> THUMBNAIL], Pending>> :
                      i \in 0..(th - 1)}
            \cup {<<[reference |-> i, resolution |-> FULLHD], Pending>> :
                      i \in 0..(fh - 1)}
    IN  [r \in {e[1] : e \in entries} |->
            (CHOOSE e \in entries : e[1] = r)[2]]

\* request_image(req) called with the table table_of(p, l, th, fh)
called_request(p, l, th, fh, req) ==
    [op |-> "request_image", req |-> req,
     pending |-> p, loaded |-> l, thumbnails |-> th, fullhd |-> fh,
     table |-> table_of(p, l, th, fh),
     after |-> requested_in(table_of(p, l, th, fh), [requests |-> <<req>>])]

\* ------------------------------------------------------------ the decode
\* what the file of a reference is to the decode: whether
\* Metadata::new_from_path returns Ok, whether the metadata hold a thumbnail,
\* whether File::open and read_to_end return Ok when load_image_bytes runs,
\* and whether turbojpeg decompresses the bytes read
File == [metadata : BOOLEAN, thumbnail : BOOLEAN, opens : BOOLEAN, jpeg : BOOLEAN]

\* load_image_bytes: the bytes, or the panic of an unwrap
load_image_bytes(file) == IF file.opens THEN "bytes" ELSE "panic"

\* get_rgba_for_path: "Ok", "Err" or "panic"
get_rgba_for_path(file, resolution) ==
    IF ~file.metadata THEN "Err"
    ELSE LET img_bytes ==
                 CASE resolution = THUMBNAIL ->
                          IF file.thumbnail THEN "bytes" ELSE load_image_bytes(file)
                   [] resolution = NATIVE -> load_image_bytes(file)
                   [] resolution = FULLHD -> "panic"
         IN  IF img_bytes = "panic" THEN "panic"
             ELSE IF file.jpeg THEN "Ok" ELSE "Err"

\* the closure of request_image from its staleness check on, for a request
\* at the resolution whose file is file and which is in the table or not:
\* how it ends, what it sent, and whether it inserted Loaded
closure_of(file, resolution, in_table) ==
    IF ~in_table THEN [ret |-> "return", sent |-> <<>>, marked |-> FALSE]
    ELSE LET sized_image == get_rgba_for_path(file, resolution)
         IN  IF sized_image = "panic"
             THEN [ret |-> "panic", sent |-> <<>>, marked |-> FALSE]
             ELSE [ret |-> "return", sent |-> <<sized_image>>, marked |-> TRUE]

\* the closure with the insert made whether or not send returned Ok
closure_marks_always(file, resolution, in_table, receiver) ==
    IF ~in_table THEN [ret |-> "return", sent |-> <<>>, marked |-> FALSE]
    ELSE LET sized_image == get_rgba_for_path(file, resolution)
         IN  IF sized_image = "panic"
             THEN [ret |-> "panic", sent |-> <<>>, marked |-> FALSE]
             ELSE [ret |-> "return",
                   sent |-> IF receiver THEN <<sized_image>> ELSE <<>>,
                   marked |-> TRUE]

\* the closure of request_image from its staleness check on, with the
\* Receiver of the channel alive or dropped: sender.send returns
\* Err(SendError) when it is dropped, and the closure returns before its
\* insert
closure_on(file, resolution, in_table, receiver) ==
    IF ~in_table THEN [ret |-> "return", sent |-> <<>>, marked |-> FALSE]
    ELSE LET sized_image == get_rgba_for_path(file, resolution)
         IN  IF sized_image = "panic"
             THEN [ret |-> "panic", sent |-> <<>>, marked |-> FALSE]
             ELSE IF ~receiver
             THEN [ret |-> "return", sent |-> <<>>, marked |-> FALSE]
             ELSE [ret |-> "return", sent |-> <<sized_image>>, marked |-> TRUE]

\* ---------------------------------------------------------------- Init
\* from_paths on a non-empty catalog: index 0 and set(0)
Init ==
    /\ index = 0
    /\ preload \in 0..MaxPreload
    /\ LET st == request_each(EmptyMap, <<>>, EmptyHist, set_requests(0))
       IN  /\ cache = st.cache
           /\ tasks = st.tasks
           /\ spawned = Len(st.tasks)
           /\ hist = st.hist
    /\ channel = <<>>
    /\ layers = EmptyLayers
    /\ pending = <<>>
    /\ call = NoCall
    /\ at = "loop"
    /\ lock = "free"

\* ------------------------------------------------- interactive thread
\* request_image is called for the requests reqs in turn; the run stops
\* spawning at MaxTasks closures
Submit(reqs) ==
    LET st == request_each(cache, tasks, hist, reqs)
        n == Len(st.tasks) - Len(tasks)
    IN  /\ spawned + n <= MaxTasks
        /\ cache' = st.cache
        /\ tasks' = st.tasks
        /\ spawned' = spawned + n
        /\ hist' = st.hist

RequestImage(req) ==
    /\ UNCHANGED <<index, preload, channel>>
    /\ Submit(<<req>>)

\* next_image: set((index + 1) % len), the cursor first, then the request
NextImage ==
    /\ index' = next_index(index)
    /\ UNCHANGED <<preload, channel>>
    /\ Submit(set_requests(next_index(index)))

\* prev_image: set((index + len - 1) % len)
PrevImage ==
    /\ index' = prev_index(index)
    /\ UNCHANGED <<preload, channel>>
    /\ Submit(set_requests(prev_index(index)))

Preload ==
    /\ UNCHANGED <<index, preload, channel>>
    /\ Submit(preload_requests(index, preload))

ClearCache ==
    LET c == clear_cache(cache, index, preload)
        removed == (DOMAIN cache) \ (DOMAIN c)
    IN  /\ UNCHANGED <<index, preload, channel, spawned>>
        /\ cache' = c
        /\ tasks' = mark_pruned(tasks, removed)
        /\ hist' = hist_removed(hist, removed)

Images ==
    /\ UNCHANGED <<index, preload, tasks, spawned>>
    /\ channel' = <<>>
    /\ cache' = images_cache(cache, channel)
    /\ hist' = hist_drained(hist, channel, images_returned(channel))

\* ------------------------------------------------------- worker steps
Running == {t \in DOMAIN tasks : tasks[t].pc \in OnThread}
Queued == {t \in DOMAIN tasks : tasks[t].pc = "queued"}

Remove(s, t) == [i \in 1..(Len(s) - 1) |-> IF i < t THEN s[i] ELSE s[i + 1]]

\* the staleness check: the closure goes on iff its request is in the table
passes_check(c, req) == contains_key(c, req)

\* the closure t after its staleness check: decoding, or returned
Checked(t) ==
    IF passes_check(cache, tasks[t].req)
    THEN /\ tasks' = [tasks EXCEPT ![t].pc = "decoding"]
         /\ hist' = hist_add(hist, tasks[t].req, "decoded")
    ELSE /\ tasks' = Remove(tasks, t)
         /\ UNCHANGED hist

\* a free pool thread takes the oldest queued closure and runs it up to the
\* sleep, or with no delay up to the end of the staleness check
WorkerStart(t) ==
    /\ t \in Queued
    /\ \A u \in Queued : t <= u
    /\ Cardinality(Running) < NumThreads
    /\ IF tasks[t].delay_ms > 0
       THEN /\ tasks' = [tasks EXCEPT ![t].pc = "sleeping"]
            /\ UNCHANGED hist
       ELSE Checked(t)
    /\ UNCHANGED <<index, preload, cache, channel, spawned>>

\* the sleep ends and the staleness check runs under the table lock
WorkerCheck(t) ==
    /\ tasks[t].pc = "sleeping"
    /\ Checked(t)
    /\ UNCHANGED <<index, preload, cache, channel, spawned>>

\* from_request returns (Ok or Err) and the result is sent
WorkerSend(t) ==
    /\ tasks[t].pc = "decoding"
    /\ channel' = send(channel, from_request(tasks[t].req))
    /\ tasks' = [tasks EXCEPT ![t].pc = "marking"]
    /\ hist' = hist_add(hist, tasks[t].req, "sent")
    /\ UNCHANGED <<index, preload, cache, spawned>>

\* a closure that ends without the insert
after_mark_none(c, req) == c

\* a closure that ends by writing Pending where the insert writes Loaded
after_mark_pending(c, req) == insert(c, req, Pending)

\* cache.lock().unwrap().insert(req, LoadState::Loaded)
after_mark(c, req) == insert(c, req, Loaded)

WorkerMark(t) ==
    /\ tasks[t].pc = "marking"
    /\ cache' = after_mark(cache, tasks[t].req)
    /\ tasks' = Remove(tasks, t)
    /\ UNCHANGED <<index, preload, channel, spawned, hist>>

\* ------------------------------------------------- the layer cache
\* add_layer and retain called on the layer cache in any order, with any
\* layer and any slice of requests; the loader beside it takes no step
AddLayer(layer) ==
    /\ layers' = add_layer(layers, layer)
    /\ UNCHANGED <<loader_vars, pending, call, at>>

Retain(reqs) ==
    /\ layers' = retain(layers, reqs)
    /\ UNCHANGED <<loader_vars, pending, call, at>>

LayersInit == Init /\ preload = 0

LayersNext ==
    \/ \E layer \in Layer : AddLayer(layer)
    \/ \E reqs \in SUBSET ImageRequest : Retain(reqs)

LayersSpec == LayersInit /\ [][LayersNext]_vars

\* ------------------------------------------------------ catalog calls
CallGetRadius(n, idx, radius) ==
    /\ call' = called("get_radius", n, idx, radius, get_radius_of(n, idx, radius))
    /\ UNCHANGED <<loader_vars, viewer_vars>>

CallPreload(n, idx, radius) ==
    /\ call' = called("preload", n, idx, radius, preload_of(n, idx, radius))
    /\ UNCHANGED <<loader_vars, viewer_vars>>

CallSet(n, idx, i) ==
    /\ call' = called("set", n, idx, i, set_of(n, idx, i))
    /\ UNCHANGED <<loader_vars, viewer_vars>>

CallNextImage(n, idx) ==
    /\ call' = called("next_image", n, idx, 0, next_image_of(n, idx))
    /\ UNCHANGED <<loader_vars, viewer_vars>>

CallPrevImage(n, idx) ==
    /\ call' = called("prev_image", n, idx, 0, prev_image_of(n, idx))
    /\ UNCHANGED <<loader_vars, viewer_vars>>

\* preload(radius) on a loader whose table is c
CallPreloadIn(n, idx, radius, c) ==
    /\ call' = called_in("preload_in", n, idx, radius, c, preload_of(n, idx, radius))
    /\ UNCHANGED <<loader_vars, viewer_vars>>

\* next_image, prev_image and set(i) on a loader constructed with the preload
\* radius and whose table is c
CallNextImageIn(n, idx, radius, c) ==
    /\ call' = called_in("next_image_in", n, idx, radius, c, next_image_of(n, idx))
    /\ UNCHANGED <<loader_vars, viewer_vars>>

CallPrevImageIn(n, idx, radius, c) ==
    /\ call' = called_in("prev_image_in", n, idx, radius, c, prev_image_of(n, idx))
    /\ UNCHANGED <<loader_vars, viewer_vars>>

CallSetIn(n, idx, radius, c, i) ==
    /\ call' = called_in("set_in", n, idx, radius, c, set_of(n, idx, i))
    /\ UNCHANGED <<loader_vars, viewer_vars>>

\* request_image(req) on a loader whose table is table_of(p, l, th, fh)
CallRequestImage(p, l, th, fh, req) ==
    /\ call' = called_request(p, l, th, fh, req)
    /\ UNCHANGED <<loader_vars, viewer_vars>>

\* the closure of a request runs from its staleness check to its end
CallClosure(file, resolution, in_table) ==
    /\ call' = [op |-> "closure", file |-> file, resolution |-> resolution,
                in_table |-> in_table,
                out |-> closure_of(file, resolution, in_table)]
    /\ UNCHANGED <<loader_vars, viewer_vars>>

\* from_paths builds the pool on a machine whose available_parallelism()
\* returns available
CallFromPaths(available) ==
    /\ call' = [op |-> "from_paths", available |-> available,
                num_threads |-> num_threads(available)]
    /\ UNCHANGED <<loader_vars, viewer_vars>>

\* the closure of a request runs from its staleness check to its end, with
\* the Receiver alive or dropped
CallClosureOn(file, resolution, in_table, receiver) ==
    /\ call' = [op |-> "closure_on", file |-> file, resolution |-> resolution,
                in_table |-> in_table, receiver |-> receiver,
                out |-> closure_on(file, resolution, in_table, receiver)]
    /\ UNCHANGED <<loader_vars, viewer_vars>>

CallInit == Init /\ preload = 0

\* the call made on a loader just built
Fresh == call = NoCall

CallNext ==
    \/ Fresh /\ \E n \in 0..MaxLen : \E idx \in Cursors(n) :
           \E radius \in 0..MaxRadius : CallGetRadius(n, idx, radius)
    \/ Fresh /\ \E n \in 0..MaxLen : \E idx \in Cursors(n) :
           \E radius \in 0..MaxRadius : CallPreload(n, idx, radius)
    \/ Fresh /\ \E n \in 0..MaxLen : \E idx \in Cursors(n) :
           \E radius \in 0..MaxRadius :
               \E c \in Tables(n, idx) : CallPreloadIn(n, idx, radius, c)
    \/ Fresh /\ \E n \in 0..MaxLen : \E idx \in Cursors(n) :
           \E radius \in 0..MaxRadius :
               \E c \in Tables(n, idx) : CallNextImageIn(n, idx, radius, c)
    \/ Fresh /\ \E n \in 0..MaxLen : \E idx \in Cursors(n) :
           \E radius \in 0..MaxRadius :
               \E c \in Tables(n, idx) : CallPrevImageIn(n, idx, radius, c)
    \/ Fresh /\ \E n \in 0..MaxLen : \E idx \in Cursors(n) :
           \E radius \in 0..MaxRadius :
               \E c \in Tables(n, idx) :
                   \E i \in 0..(n - 1) : CallSetIn(n, idx, radius, c, i)
    \/ Fresh /\ \E n \in 0..MaxLen : \E idx \in Cursors(n) :
           \E i \in 0..(MaxLen + 1) : CallSet(n, idx, i)
    \/ Fresh /\ \E n \in 0..MaxLen : \E idx \in Cursors(n) :
           CallNextImage(n, idx)
    \/ Fresh /\ \E n \in 0..MaxLen : \E idx \in Cursors(n) :
           CallPrevImage(n, idx)
    \/ Fresh /\ \E file \in File : \E res \in ImageResolution :
           \E in_table \in BOOLEAN : CallClosure(file, res, in_table)
    \/ Fresh /\ \E file \in File : \E res \in ImageResolution :
           \E in_table, receiver \in BOOLEAN :
               CallClosureOn(file, res, in_table, receiver)
    \/ Fresh /\ \E available \in Parallelism : CallFromPaths(available)
    \/ Fresh /\ \E p \in 0..MaxPending :
           \E l, th, fh \in 0..MaxOthers :
               \E i \in 0..(p + l) :
                   \E res \in ImageResolution :
                       CallRequestImage(p, l, th, fh,
                                        [reference |-> i, resolution |-> res])

CallSpec == CallInit /\ [][CallNext]_vars

\* ------------------------------------------------------- the viewer
\* one turn of the closure of event_loop.run: images() is called and each
\* image it returned goes through add_image, then on_event handles the event.
\* The closures of the pool take their steps between any two of these.

\* viewer.loader.images() at the head of the for loop
LoopImages ==
    /\ pending = <<>>
    /\ Images
    /\ pending' = images_returned(channel)
    /\ UNCHANGED <<layers, call, at, lock>>

\* add_image(si) for the next image of the loop: add_layer_from_sized_image,
\* preload(loader.preload), clear_cache(), layers.retain(loader.cached())
AddImage ==
    /\ pending # <<>>
    /\ LET added == add_layer(layers, layer_of(Head(pending)))
           st == request_each(cache, tasks, hist, preload_requests(index, preload))
           n == Len(st.tasks) - Len(tasks)
           c == clear_cache(st.cache, index, preload)
           removed == (DOMAIN st.cache) \ (DOMAIN c)
       IN  /\ spawned + n <= MaxTasks
           /\ spawned' = spawned + n
           /\ cache' = c
           /\ tasks' = mark_pruned(st.tasks, removed)
           /\ hist' = hist_removed(st.hist, removed)
           /\ layers' = retain(added, cached(c))
    /\ pending' = Tail(pending)
    /\ UNCHANGED <<index, preload, channel, call, at, lock>>

\* on_key_press: J is next_image, K is prev_image; the event comes after the
\* loop over the images
KeyJ == pending = <<>> /\ NextImage /\ UNCHANGED <<layers, pending, call, at, lock>>
KeyK == pending = <<>> /\ PrevImage /\ UNCHANGED <<layers, pending, call, at, lock>>

ViewerNext ==
    \/ LoopImages
    \/ AddImage
    \/ KeyJ
    \/ KeyK
    \/ (\E t \in DOMAIN tasks : WorkerStart(t)) /\ UNCHANGED <<layers, pending, call, at, lock>>
    \/ (\E t \in DOMAIN tasks : WorkerCheck(t)) /\ UNCHANGED <<layers, pending, call, at, lock>>
    \/ (\E t \in DOMAIN tasks : WorkerSend(t)) /\ UNCHANGED <<layers, pending, call, at, lock>>
    \/ (\E t \in DOMAIN tasks : WorkerMark(t)) /\ UNCHANGED <<layers, pending, call, at, lock>>

ViewerSpec == Init /\ [][ViewerNext]_vars

\* some closure takes a step on a pool thread
WorkerNext ==
    /\ UNCHANGED <<layers, pending, call, at, lock>>
    /\ \E t \in DOMAIN tasks :
           WorkerStart(t) \/ WorkerCheck(t) \/ WorkerSend(t) \/ WorkerMark(t)

\* the viewer with pool threads that run: a closure that can take a step is
\* not left waiting for ever (the sleep ends, the decode returns, the lock
\* is given); the interactive thread may take its steps, or none
FairSpec == ViewerSpec /\ WF_vars(WorkerNext)

\* --------------------------------------- the viewer, add_image in steps
\* add_image takes the table lock once per call it makes on the loader, and
\* the closures of the pool take their steps between those calls: the layer
\* is added and preload called, then clear_cache, then cached() and retain

\* add_layer_from_sized_image and preload(loader.preload)
AddImagePreload ==
    /\ at = "loop"
    /\ pending # <<>>
    /\ layers' = add_layer(layers, layer_of(Head(pending)))
    /\ Submit(preload_requests(index, preload))
    /\ at' = "clear_cache"
    /\ UNCHANGED <<index, preload, channel, pending, call, lock>>

\* loader.clear_cache()
AddImageClearCache ==
    /\ at = "clear_cache"
    /\ ClearCache
    /\ at' = "retain"
    /\ UNCHANGED <<layers, pending, call, lock>>

\* layers.retain(&loader.cached()), and add_image returns
AddImageRetain ==
    /\ at = "retain"
    /\ layers' = retain(layers, cached(cache))
    /\ pending' = Tail(pending)
    /\ at' = "loop"
    /\ UNCHANGED <<index, preload, cache, tasks, channel, spawned, hist, call, lock>>

CycleNext ==
    \/ LoopImages
    \/ AddImagePreload
    \/ AddImageClearCache
    \/ AddImageRetain
    \/ KeyJ
    \/ KeyK
    \/ (\E t \in DOMAIN tasks : WorkerStart(t)) /\ UNCHANGED <<layers, pending, call, at, lock>>
    \/ (\E t \in DOMAIN tasks : WorkerCheck(t)) /\ UNCHANGED <<layers, pending, call, at, lock>>
    \/ (\E t \in DOMAIN tasks : WorkerSend(t)) /\ UNCHANGED <<layers, pending, call, at, lock>>
    \/ (\E t \in DOMAIN tasks : WorkerMark(t)) /\ UNCHANGED <<layers, pending, call, at, lock>>

CycleSpec == Init /\ [][CycleNext]_vars

\* ------------------------------------------------- the table lock
\* The loader with the Mutex of the table: a closure takes the lock for its
\* staleness check and for its insert, each in a statement of its own, and
\* the calls of the interactive thread that lock the table (request_image,
\* clear_cache) take it for the whole call.  A closure that has the lock is
\* "checking" or "inserting"; the interactive thread that has it is inside
\* request_image, between its lock() and its return, where it inserts the
\* entry and hands the closure to thread_pool.spawn.

\* the lock when the statement that took it has ended and the closure goes
\* on holding the guard
guard_kept(l) == l

\* the lock when the statement that took it has ended: the guard, a
\* temporary of the statement, is dropped
guard_dropped(l) == "free"

\* the lock when request_image has returned and its guard has been leaked
\* (never dropped)
guard_forgotten(l) == l

\* the lock when request_image has returned: its guard, a local of the
\* call, is dropped
guard_returned(l) == "free"

\* next_image up to the lock() of request_image: set assigns the cursor and
\* request_image takes the table lock, which it holds to its return
LockNextImage ==
    /\ at = "loop"
    /\ lock = "free"
    /\ LET st == request_each(cache, tasks, hist,
                              set_requests(next_index(index)))
       IN  spawned + Len(st.tasks) - Len(tasks) <= MaxTasks
    /\ index' = next_index(index)
    /\ lock' = "main"
    /\ at' = "request_image"
    /\ UNCHANGED <<preload, cache, tasks, channel, spawned, hist, layers,
                   pending, call>>

\* request_image under its guard: the dedup return, or the insert of Pending
\* and thread_pool.spawn, which queues the closure; then the return
LockRequestImage ==
    /\ at = "request_image"
    /\ Submit(set_requests(index))
    /\ lock' = guard_returned(lock)
    /\ at' = "loop"
    /\ UNCHANGED <<index, preload, channel, layers, pending, call>>

\* clear_cache, which locks the table for its retain
LockClearCache ==
    /\ at = "loop"
    /\ lock = "free"
    /\ ClearCache
    /\ UNCHANGED <<layers, pending, call, at, lock>>

\* images(), which takes no lock
LockImages ==
    /\ at = "loop"
    /\ Images
    /\ UNCHANGED <<layers, pending, call, at, lock>>

\* a pool thread takes the oldest queued closure, which sleeps if it has a
\* delay and else goes to the lock for its staleness check
LockStart(t) ==
    /\ t \in Queued
    /\ \A u \in Queued : t <= u
    /\ Cardinality({u \in DOMAIN tasks : tasks[u].pc # "queued"}) < NumThreads
    /\ tasks' = [tasks EXCEPT ![t].pc = IF tasks[t].delay_ms > 0 THEN "sleeping"
                                        ELSE "woken"]
    /\ UNCHANGED <<index, preload, cache, channel, spawned, hist, lock>>

\* the sleep has ended
LockWake(t) ==
    /\ tasks[t].pc = "sleeping"
    /\ tasks' = [tasks EXCEPT ![t].pc = "woken"]
    /\ UNCHANGED <<index, preload, cache, channel, spawned, hist, lock>>

\* cache.lock() of the staleness check returns
LockForCheck(t) ==
    /\ tasks[t].pc = "woken"
    /\ lock = "free"
    /\ lock' = "worker"
    /\ tasks' = [tasks EXCEPT ![t].pc = "checking"]
    /\ UNCHANGED <<index, preload, cache, channel, spawned, hist>>

\* get(&req).is_none() under the lock, and the end of the condition
LockCheck(t) ==
    /\ tasks[t].pc = "checking"
    /\ Checked(t)
    /\ lock' = guard_dropped(lock)
    /\ UNCHANGED <<index, preload, cache, channel, spawned>>

\* from_request and send: WorkerSend, which does not touch the lock

\* cache.lock() of the insert returns
LockForMark(t) ==
    /\ tasks[t].pc = "marking"
    /\ lock = "free"
    /\ lock' = "worker"
    /\ tasks' = [tasks EXCEPT ![t].pc = "inserting"]
    /\ UNCHANGED <<index, preload, cache, channel, spawned, hist>>

\* insert(req, Loaded) under the lock, and the end of the statement
LockMark(t) ==
    /\ tasks[t].pc = "inserting"
    /\ cache' = after_mark(cache, tasks[t].req)
    /\ tasks' = Remove(tasks, t)
    /\ lock' = guard_dropped(lock)
    /\ UNCHANGED <<index, preload, channel, spawned, hist>>

LockNext ==
    \/ LockNextImage
    \/ LockRequestImage
    \/ LockClearCache
    \/ LockImages
    \/ (\E t \in DOMAIN tasks : LockStart(t)) /\ UNCHANGED <<layers, pending, call, at>>
    \/ (\E t \in DOMAIN tasks : LockWake(t)) /\ UNCHANGED <<layers, pending, call, at>>
    \/ (\E t \in DOMAIN tasks : LockForCheck(t)) /\ UNCHANGED <<layers, pending, call, at>>
    \/ (\E t \in DOMAIN tasks : LockCheck(t)) /\ UNCHANGED <<layers, pending, call, at>>
    \/ (\E t \in DOMAIN tasks : WorkerSend(t)) /\ UNCHANGED <<layers, pending, call, at, lock>>
    \/ (\E t \in DOMAIN tasks : LockForMark(t)) /\ UNCHANGED <<layers, pending, call, at>>
    \/ (\E t \in DOMAIN tasks : LockMark(t)) /\ UNCHANGED <<layers, pending, call, at>>

LockSpec == Init /\ [][LockNext]_vars

\* the loader used on its own: the layer cache and the calls stay as they are
Next ==
    \/ (\E req \in DirectRequests : RequestImage(req)) /\ UNCHANGED <<layers, pending, call, at, lock>>
    \/ NextImage /\ UNCHANGED <<layers, pending, call, at, lock>>
    \/ PrevImage /\ UNCHANGED <<layers, pending, call, at, lock>>
    \/ Preload /\ UNCHANGED <<layers, pending, call, at, lock>>
    \/ ClearCache /\ UNCHANGED <<layers, pending, call, at, lock>>
    \/ Images /\ UNCHANGED <<layers, pending, call, at, lock>>
    \/ (\E t \in DOMAIN tasks : WorkerStart(t)) /\ UNCHANGED <<layers, pending, call, at, lock>>
    \/ (\E t \in DOMAIN tasks : WorkerCheck(t)) /\ UNCHANGED <<layers, pending, call, at, lock>>
    \/ (\E t \in DOMAIN tasks : WorkerSend(t)) /\ UNCHANGED <<layers, pending, call, at, lock>>
    \/ (\E t \in DOMAIN tasks : WorkerMark(t)) /\ UNCHANGED <<layers, pending, call, at, lock>>

Spec == Init /\ [][Next]_vars

TypeOK ==
    /\ index \in 0..(len - 1)
    /\ preload \in 0..MaxPreload
    /\ DOMAIN cache \subseteq ImageRequest
    /\ \A r \in DOMAIN cache : cache[r] \in LoadState
    /\ Len(tasks) <= MaxTasks
    /\ spawned <= MaxTasks
\* ------------------------------------------------------------- claims
TasksFor(r) == {t \in DOMAIN tasks : tasks[t].req = r}
Decoding(r) == {t \in TasksFor(r) : tasks[t].pc = "decoding"}
Waiting(r, ch) == {i \in DOMAIN ch : ch[i].req = r}
SelectOk(s) == SelectSeq(s, LAMBDA x : x.ok)
Errors(r, ch) == {i \in DOMAIN ch : ch[i].req = r /\ ~ch[i].ok}

\* r has completed and its result has been received by images()
Settled(r) ==
    r \in DOMAIN cache /\ cache[r] = Loaded /\ Waiting(r, channel) = {}

\* C1, as claimed: while no entry has been removed by clear_cache, however
\* often request_image(r) is called, r in the table has exactly one closure
\* spawned and at most one decode, and once r has completed and been drained
\* images() has returned exactly one image of r.
C1_DedupYieldsOneImage ==
    hist.on =>
        \A r \in DOMAIN cache :
            /\ hist.of[r].spawned = 1
            /\ hist.of[r].decoded <= 1
            /\ Settled(r) => hist.of[r].decoded = 1 /\ hist.of[r].yielded = 1

\* C1, amended: while no entry has been removed by clear_cache, r is in the
\* table iff exactly one closure was spawned for it, at most one closure of r
\* is outstanding, at most one decode of r runs and at most one result of r
\* is sent; once r has completed and been drained, exactly one decode ran,
\* exactly one result was sent, and images() returned exactly one image of r
\* if the decode succeeded and none (the error was logged) if it failed.
C1_Dedup ==
    hist.on =>
        \A r \in Tracked :
            LET h == hist.of[r]
                image == IF r.reference \in Corrupt THEN 0 ELSE 1
            IN  /\ (r \in DOMAIN cache) = (h.spawned = 1)
                /\ h.spawned <= 1
                /\ Cardinality(TasksFor(r)) <= 1
                /\ h.decoded <= h.spawned
                /\ h.sent <= h.decoded
                /\ h.yielded + h.logged + Cardinality(Waiting(r, channel)) = h.sent
                /\ Settled(r) =>
                       /\ h.decoded = 1
                       /\ h.sent = 1
                       /\ h.yielded = image
                       /\ h.logged = 1 - image

\* request_image was called again for the first image's NATIVE request while
\* it was in the table, and the request, spawned once and decoded once, has
\* been marked Loaded and drained as one image.  (With radius 0 the entry of
\* the second image comes from set(1) alone, and the cursor is back at 0
\* through a set(0), which found the entry of Init: none was removed.)
C1_Witness ==
    /\ hist.on
    /\ preload = 0
    /\ index = 0
    /\ native(1) \in DOMAIN cache
    /\ Settled(native(0))
    /\ hist.of[native(0)].spawned = 1
    /\ hist.of[native(0)].decoded = 1
    /\ hist.of[native(0)].yielded = 1

\* C2, as claimed: at no time are two closures decoding the same request.
C2_NoConcurrentDecode ==
    \A r \in DOMAIN hist.of : Cardinality(Decoding(r)) <= 1

\* C3, as claimed: each Pending entry of the table has exactly one
\* outstanding closure.
C3_PendingHasOneTask ==
    \A r \in DOMAIN cache :
        cache[r] = Pending => Cardinality(TasksFor(r)) = 1

\* C4, as claimed: a Loaded entry of the table has no outstanding closure.
C4_LoadedHasNoTask ==
    \A r \in DOMAIN cache : cache[r] = Loaded => TasksFor(r) = {}

\* C5: a call of request_image(r) with r in the table, Pending or Loaded,
\* changes neither the table nor the closures nor the channel; this holds of
\* the call for every entry of every reachable table and of every step that
\* is such a call.
C5_ResubmitNoOp ==
    [][/\ \A r \in DOMAIN cache :
              request_image(cache, tasks, r) = [cache |-> cache, tasks |-> tasks]
       /\ \A r \in DOMAIN cache :
              (\/ r \in DirectRequests /\ RequestImage(r)
               \/ r = native(next_index(index)) /\ NextImage
               \/ r = native(prev_index(index)) /\ PrevImage)
                  => UNCHANGED <<cache, tasks, channel, spawned>>]_vars

\* the cursor has gone to the second image and come back by set(0) while the
\* first image's NATIVE entry, never removed, was still Pending: the entry is
\* unchanged, its closure is the one of Init, and the run has spawned two
\* closures, one per entry
C5_Witness ==
    /\ hist.on
    /\ preload = 0
    /\ index = 0
    /\ DOMAIN cache = {native(0), native(1)}
    /\ cache[native(0)] = Pending
    /\ TasksFor(native(0)) = {1}
    /\ tasks[1].pc = "queued"
    /\ spawned = 2

\* C6, as claimed: a closure whose request clear_cache removed before its
\* staleness check never decodes and never sends.
C6_PrunedNeverDecodes ==
    \A t \in DOMAIN tasks :
        tasks[t].pruned => tasks[t].pc \notin {"decoding", "marking"}

\* C7, as claimed: images() returns exactly the results sent since the
\* previous call, in the order sent.
C7_DrainReturnsAllResults == images_returned(channel) = channel

\* C7, amended: images() is never blocked; it takes every result sent since
\* the previous call off the channel and returns the successfully decoded
\* ones among them, each once, in the order sent (the empty sequence when
\* none is waiting); the channel changes only by a send at its tail or by
\* images() emptying it.
C7_DrainReturnsImages ==
    [][/\ ENABLED Images
       /\ images_returned(channel) = SelectOk(channel)
       /\ Images => channel' = <<>>
       /\ channel' # channel =>
              \/ Images
              \/ \E t \in DOMAIN tasks :
                     /\ tasks[t].pc = "decoding"
                     /\ channel' = Append(channel, from_request(tasks[t].req))]_vars

\* images() has returned an image before, and now an error followed by an
\* image wait on the channel
C7_Witness ==
    /\ hist.on
    /\ \E r \in Tracked : hist.of[r].yielded = 1
    /\ Len(channel) = 2
    /\ ~channel[1].ok
    /\ channel[2].ok

C9_DrainKeepsTable == [][Images => cache' = cache]_vars

\* images() has returned the image of a request, whose entry is still in the
\* table
C9_Witness ==
    /\ hist.on
    /\ \E r \in Tracked : hist.of[r].yielded = 1 /\ r \in DOMAIN cache

\* the locality window as the specification states it: the references at
\* cursor +- i, modulo the catalog length, for i up to the radius
InWindow(ref, cursor, radius) ==
    \E i \in 0..radius :
        \/ ref = images[(cursor + i) % len]
        \/ ref = images[(cursor - i) % len]

\* C10: clear_cache removes exactly the entries whose reference is outside
\* the locality window of radius preload around the cursor and whose
\* resolution is not THUMBNAIL, Pending or Loaded alike, and keeps every other
\* entry with its state.
C10_PruneKeepsWindowAndThumbnails ==
    [][ClearCache =>
          cache' = [r \in {x \in DOMAIN cache :
                              \/ InWindow(x.reference, index, preload)
                              \/ x.resolution = THUMBNAIL}
                       |-> cache[r]]]_vars

\* after a prune at radius 0 with the cursor away from the first image, the
\* first image's NATIVE entry is gone and its THUMBNAIL entry is kept, next to
\* the entry of the cursor
C10_Witness ==
    /\ ~hist.on
    /\ preload = 0
    /\ index # 0
    /\ native(0) \notin DOMAIN cache
    /\ native(index) \in DOMAIN cache
    /\ new_request(images[0], THUMBNAIL) \in DOMAIN cache

\* C11: a THUMBNAIL request in the table is in the table after every step:
\* no call of the loader and no step of a closure removes it, wherever the
\* cursor is.
C11_ThumbnailsStay ==
    [][\A r \in DOMAIN cache :
           r.resolution = THUMBNAIL => r \in DOMAIN cache']_vars

\* the first image's thumbnail has been decoded and marked Loaded, and it is
\* in the table after a prune at radius 0 that removed an entry, with the
\* cursor on another image and nothing outstanding
C11_Witness ==
    /\ ~hist.on
    /\ preload = 0
    /\ index # 0
    /\ tasks = <<>>
    /\ new_request(images[0], THUMBNAIL) \in DOMAIN cache
    /\ cache[new_request(images[0], THUMBNAIL)] = Loaded
    /\ DOMAIN cache = {native(index), new_request(images[0], THUMBNAIL)}

\* the layers of the pair (iref, res) in the layer cache lm
LayersOf(lm, iref, res) ==
    IF iref \notin DOMAIN lm THEN {}
    ELSE {i \in DOMAIN lm[iref] : lm[iref][i].resolution = res}

\* the number of layers lm holds for iref
CountOf(lm, iref) == IF iref \notin DOMAIN lm THEN 0 ELSE Len(lm[iref])

\* C13: after any sequence of add_layer and retain calls the layer cache
\* holds at most one layer per (reference, resolution) pair, each under the
\* key of its own reference; add_layer of a pair already present leaves the
\* number of layers of the reference as it was, with the new layer the only
\* one of its pair, and add_layer of a new pair adds one layer.
C13_OneLayerPerPair ==
    /\ \A iref \in DOMAIN layers :
           /\ \A i \in DOMAIN layers[iref] : layers[iref][i].image_ref = iref
           /\ \A res \in ImageResolution :
                  Cardinality(LayersOf(layers, iref, res)) <= 1
    /\ \A layer \in Layer :
           LET after == add_layer(layers, layer)
               iref == layer.image_ref
               had == LayersOf(layers, iref, layer.resolution) # {}
           IN  /\ Cardinality(LayersOf(after, iref, layer.resolution)) = 1
               /\ after[iref][Len(after[iref])] = layer
               /\ CountOf(after, iref) =
                      CountOf(layers, iref) + (IF had THEN 0 ELSE 1)
               /\ \A x \in (DOMAIN layers) \ {iref} : after[x] = layers[x]

\* the first image has a layer at each of the three resolutions, the
\* THUMBNAIL one first; add_layer of a THUMBNAIL layer of the image takes
\* that one out and leaves three layers, the new one last
C13_Witness ==
    /\ images[0] \in DOMAIN layers
    /\ Len(layers[images[0]]) = 3
    /\ layers[images[0]][1].resolution = THUMBNAIL
    /\ layers[images[0]][2].resolution = FULLHD
    /\ LET after == add_layer(layers, [image_ref |-> images[0],
                                       resolution |-> THUMBNAIL])
       IN  /\ Len(after[images[0]]) = 3
           /\ after[images[0]][1].resolution = FULLHD
           /\ after[images[0]][3].resolution = THUMBNAIL

\* the order of the resolutions as the specification gives it
SpecOrder == <<THUMBNAIL, FULLHD, NATIVE>>
Place(res) == CHOOSE i \in DOMAIN SpecOrder : SpecOrder[i] = res

\* C14: get_layer(reference) returns the layer of that reference with the
\* highest resolution in the order THUMBNAIL < FULLHD < NATIVE, and returns
\* none exactly when no layer is cached for the reference.
C14_BestLayer ==
    \A iref \in ImageRef :
        LET got == get_layer(layers, iref)
        IN  /\ (got = <<>>) = (CountOf(layers, iref) = 0)
            /\ got # <<>> =>
                   /\ \E i \in DOMAIN layers[iref] : layers[iref][i] = got[1]
                   /\ \A i \in DOMAIN layers[iref] :
                          Place(layers[iref][i].resolution)
                              <= Place(got[1].resolution)

\* the first image has its three layers with the NATIVE one first and the
\* FULLHD one last, and the second image has none
C14_Witness ==
    /\ images[0] \in DOMAIN layers
    /\ Len(layers[images[0]]) = 3
    /\ layers[images[0]][1].resolution = NATIVE
    /\ layers[images[0]][3].resolution = FULLHD
    /\ images[1] \notin DOMAIN layers

\* C15: retain(keep_requests) keeps of every reference exactly the layers
\* whose (reference, resolution) pair is in keep_requests, in their order,
\* and the map has an entry for a reference exactly when a layer of it is
\* kept: an entry is removed exactly when its collection has become empty.
C15_RetainKeepsRequested ==
    \A reqs \in SUBSET ImageRequest :
        LET after == retain(layers, reqs)
            wanted(l) == new_request(l.image_ref, l.resolution) \in reqs
        IN  /\ DOMAIN after =
                   {iref \in DOMAIN layers :
                       \E i \in DOMAIN layers[iref] : wanted(layers[iref][i])}
            /\ \A iref \in DOMAIN after :
                   /\ after[iref] # <<>>
                   /\ after[iref] = SelectSeq(layers[iref], wanted)

\* the first image has a THUMBNAIL and a NATIVE layer and the second a
\* FULLHD layer; retain of the first image's NATIVE request alone drops the
\* THUMBNAIL layer, keeps the NATIVE one and removes the second image's entry
C15_Witness ==
    /\ DOMAIN layers = {images[0], images[1]}
    /\ Len(layers[images[0]]) = 2
    /\ layers[images[0]][1].resolution = THUMBNAIL
    /\ layers[images[0]][2].resolution = NATIVE
    /\ Len(layers[images[1]]) = 1
    /\ layers[images[1]][1].resolution = FULLHD
    /\ LET after == retain(layers, {native(0)})
       IN  /\ DOMAIN after = {images[0]}
           /\ after[images[0]] = <<layers[images[0]][2]>>

\* C12: in the viewer every layer of the layer cache has a (reference,
\* resolution) pair that is in the request table, after every prune cycle of
\* add_image and after every step of a closure and every key between them.
C12_LayersAreTracked ==
    \A iref \in DOMAIN layers :
        \A i \in DOMAIN layers[iref] :
            new_request(iref, layers[iref][i].resolution) \in DOMAIN cache

\* the first image arrived with the cursor on the second: add_image added
\* its layer, clear_cache at radius 0 removed its request, and retain took
\* the layer out again
C12_Witness ==
    /\ ~hist.on
    /\ preload = 0
    /\ index = 1
    /\ pending = <<>>
    /\ native(0) \notin DOMAIN cache
    /\ layers = EmptyLayers

Min(a, b) == IF a < b THEN a ELSE b

\* C16: on a catalog of length L > 0, with the cursor anywhere in 0..L-1 and
\* any radius R, get_radius(R) returns; its membership set has exactly
\* min(2R+1, L) positions, all of the catalog, holds the cursor, and holds
\* (cursor+i) mod L and (cursor-i) mod L for every i in 1..R.
C16_WindowMembership ==
    (call.op = "get_radius" /\ call.len > 0) =>
        LET L == call.len
            R == call.arg
            S == Range(call.out.value)
        IN  /\ call.out.ret = "Ok"
            /\ S \subseteq 0..(L - 1)
            /\ Cardinality(S) = Min(2 * R + 1, L)
            /\ call.index \in S
            /\ \A i \in 1..R :
                   /\ (call.index + i) % L \in S
                   /\ (call.index - i) % L \in S

\* get_radius(4) on two images with the cursor on the first: the offset -3
\* gives the index -1, which get refuses, and the window is the two images
C16_Witness ==
    /\ call.op = "get_radius"
    /\ call.len = 2
    /\ call.index = 0
    /\ call.arg = 4
    /\ call.out.value = <<0, 1, 1, 0, 0, 1, 0, 0>>

\* C17, as claimed: no reference is twice in the sequence get_radius(R)
\* returns.
C17_WindowDeduplicated ==
    call.op = "get_radius" =>
        \A i, j \in DOMAIN call.out.value :
            i # j => call.out.value[i] # call.out.value[j]

\* C17, amended: the sequence get_radius(R) returns on a catalog of length L
\* has no reference twice when L >= 2R+1, and has some reference more than
\* once when 0 < L <= 2R: the sequence is not deduplicated, only its
\* membership set is.
C17_WindowRepeatsWhenShort ==
    (call.op = "get_radius" /\ call.len > 0) =>
        LET v == call.out.value
            repeats == \E i, j \in DOMAIN v : i # j /\ v[i] = v[j]
        IN  repeats = (call.len <= 2 * call.arg)

\* get_radius(1) on two images: the second image is both at +1 and at -1,
\* and is twice in the sequence
C17_Witness ==
    /\ call.op = "get_radius"
    /\ call.len = 2
    /\ call.index = 0
    /\ call.arg = 1
    /\ call.out.value = <<0, 1, 1>>

\* C18: on a catalog of length L > 0 next_image() returns Ok with the cursor
\* at (cursor+1) mod L and prev_image() with the cursor at (cursor-1) mod L,
\* and each has passed to request_image the NATIVE request of the reference
\* at the new cursor, and no other.
C18_NextPrevWrap ==
    (call.op \in {"next_image", "prev_image"} /\ call.len > 0) =>
        LET step == IF call.op = "next_image" THEN 1 ELSE -1
            to == (call.index + step) % call.len
        IN  /\ call.out.ret = "Ok"
            /\ call.out.index = to
            /\ call.out.requests = <<new_request(to, NATIVE)>>

\* prev_image() on three images with the cursor on the first: the cursor is
\* on the last and its NATIVE request was made
C18_Witness ==
    /\ call.op = "prev_image"
    /\ call.len = 3
    /\ call.index = 0
    /\ call.out.index = 2
    /\ call.out.requests = <<new_request(2, NATIVE)>>

\* C19, as claimed: set(index) with index outside 0..len-1 returns Err and
\* leaves the cursor where it was, with no request made.
C19_SetOutOfRangeKeepsCursor ==
    (call.op = "set" /\ call.arg \notin 0..(call.len - 1)) =>
        /\ call.out.ret = "Err"
        /\ call.out.index = call.index
        /\ call.out.requests = <<>>

\* C20, as claimed: on an empty catalog next_image(), prev_image() and
\* preload() return an error value, without a panic, and leave the cursor
\* where it was, with no request made.
C20_EmptyCatalogErr ==
    (call.op \in {"next_image", "prev_image", "preload"} /\ call.len = 0) =>
        /\ call.out.ret = "Err"
        /\ call.out.index = call.index
        /\ call.out.requests = <<>>

\* the locality window as the specification states it, on a catalog of L
\* images: the positions at cursor +- i modulo L, for i up to the radius
WindowOf(L, cursor, radius) ==
    {(cursor + i) % L : i \in 0..radius} \cup {(cursor - i) % L : i \in 0..radius}

\* C21: on a catalog of length L > 0, preload(radius) passes to request_image
\* NATIVE requests only, for exactly the references of the locality window of
\* that radius around the cursor, and leaves the cursor; after it the table
\* holds its former entries with their states and a Pending entry for each
\* reference of the window it did not hold, and one closure has been spawned
\* for each of those new entries and none for an entry already in the table.
C21_PreloadRequestsWindow ==
    (call.op = "preload_in" /\ call.len > 0) =>
        LET reqs == call.out.requests
            W == {[reference |-> i, resolution |-> NATIVE] :
                     i \in WindowOf(call.len, call.index, call.arg)}
            new == W \ DOMAIN call.table
            after == call.after
        IN  /\ call.out.ret = "Ok"
            /\ call.out.index = call.index
            /\ Range(reqs) = W
            /\ DOMAIN after.cache = (DOMAIN call.table) \cup W
            /\ \A r \in DOMAIN call.table : after.cache[r] = call.table[r]
            /\ \A r \in new : after.cache[r] = Pending
            /\ Len(after.tasks) = Cardinality(new)
            /\ {after.tasks[k].req : k \in DOMAIN after.tasks} = new

\* preload(1) on five images with the cursor on the third, whose request is
\* Loaded in the table next to the Pending one of the last image: the second
\* and the fourth image get an entry and a closure each, and the first none
C21_Witness ==
    /\ call.op = "preload_in"
    /\ call.len = 5
    /\ call.index = 2
    /\ call.arg = 1
    /\ DOMAIN call.table = {[reference |-> 2, resolution |-> NATIVE],
                            [reference |-> 4, resolution |-> NATIVE]}
    /\ call.table[[reference |-> 2, resolution |-> NATIVE]] = Loaded
    /\ Len(call.after.tasks) = 2
    /\ [reference |-> 0, resolution |-> NATIVE] \notin DOMAIN call.after.cache

\* C27: request_image of a request that is not in the table spawns one
\* closure, whose debounce sleep is chosen by the number n of entries that
\* were Pending at a non-THUMBNAIL resolution before the new entry was
\* inserted: 100 ms if n > 5, 10 ms if 1 <= n <= 5, no sleep if n = 0;
\* Loaded entries and THUMBNAIL entries do not count, nor does the request
\* itself.
C27_DebounceSelection ==
    (call.op = "request_image" /\ call.req \notin DOMAIN call.table) =>
        LET n == call.pending + call.fullhd
            sleep == IF n > 5 THEN 100 ELSE IF n >= 1 THEN 10 ELSE 0
        IN  /\ Len(call.after.tasks) = 1
            /\ call.after.tasks[1].req = call.req
            /\ call.after.tasks[1].delay_ms = sleep
            /\ call.after.cache[call.req] = Pending

\* a NATIVE request made with five Pending NATIVE entries, two Loaded ones
\* and two Pending THUMBNAIL ones in the table: the sleep is the short one
C27_Witness ==
    /\ call.op = "request_image"
    /\ call.req = [reference |-> 7, resolution |-> NATIVE]
    /\ call.pending = 5
    /\ call.loaded = 2
    /\ call.thumbnails = 2
    /\ call.fullhd = 0
    /\ Cardinality(DOMAIN call.table) = 9
    /\ call.after.tasks[1].delay_ms = 10

\* C22, as claimed: once next_image, prev_image or set has moved the cursor
\* of a loader with no closure outstanding, the table holds a NATIVE request
\* for the new position and for every reference of the locality window of
\* the preload radius around it, or a closure is outstanding whose image will
\* bring add_image to make those requests; this also when the request of the
\* new position was in the table already.
C22_NavigationRequestsWindow ==
    (/\ call.op \in {"next_image_in", "prev_image_in", "set_in"}
     /\ call.len > 0
     /\ call.out.index # call.index
     /\ \A r \in DOMAIN call.table : call.table[r] = Loaded) =>
        /\ call.out.ret = "Ok"
        /\ [reference |-> call.out.index, resolution |-> NATIVE]
               \in DOMAIN call.after.cache
        /\ \/ call.after.tasks # <<>>
           \/ \A i \in WindowOf(call.len, call.out.index, call.arg) :
                  [reference |-> i, resolution |-> NATIVE]
                      \in DOMAIN call.after.cache

\* C23, as claimed: a closure that passes its staleness check, for a request
\* of any resolution and whatever the file of its reference, ends by sending
\* one result on the channel, a decoded image or an error, and does not
\* panic.
C23_WorkerPublishes ==
    (call.op = "closure" /\ call.in_table) =>
        /\ call.out.ret = "return"
        /\ Len(call.out.sent) = 1
        /\ call.out.sent[1] \in {"Ok", "Err"}

C28_EntryStaysUntilMarked ==
    \A t \in DOMAIN tasks :
        tasks[t].pc \in {"decoding", "marking"} =>
            tasks[t].req \in DOMAIN cache

\* a step of a closure of the pool
WorkerStep ==
    \E t \in DOMAIN tasks :
        WorkerStart(t) \/ WorkerCheck(t) \/ WorkerSend(t) \/ WorkerMark(t)

\* C29, as claimed: a step of a closure leaves the set of requests in the
\* table as it is (it adds none and removes none), and leaves the cursor and
\* the layer cache as they are.
C29_WorkersKeepRequests ==
    [][WorkerStep =>
          /\ DOMAIN cache' = DOMAIN cache
          /\ index' = index
          /\ layers' = layers]_vars

\* C30, as claimed: when add_image returns, every layer of the layer cache
\* is at THUMBNAIL resolution or is of a reference inside the locality window
\* of the preload radius around the cursor, whatever steps the closures have
\* taken between the calls of add_image.
C30_LayersInsideWindow ==
    [][AddImageRetain =>
          \A iref \in DOMAIN layers' :
              \A i \in DOMAIN layers'[iref] :
                  \/ layers'[iref][i].resolution = THUMBNAIL
                  \/ InWindow(iref, index', preload')]_vars

\* the closures that hold the guard of the table lock
Holders == {t \in DOMAIN tasks : tasks[t].pc \in {"checking", "inserting"}}

\* C26: the table lock is held by no closure that sleeps or decodes: it is
\* held exactly while one closure is in its staleness check or in its insert,
\* and the next step of that closure, which needs nothing else, frees it; so
\* whenever no closure is in such a statement clear_cache (and request_image)
\* can take the lock at once, whatever closures sleep or decode, and images()
\* never needs it.
C26_LockNotHeldAcrossDecode ==
    /\ lock \in {"free", "worker", "main"}
    /\ (lock = "worker") = (Cardinality(Holders) = 1)
    /\ (lock # "worker") = (Holders = {})
    /\ \A t \in DOMAIN tasks :
           tasks[t].pc \in {"queued", "sleeping", "woken", "decoding", "marking"}
               => t \notin Holders
    /\ \A t \in Holders : ENABLED (LockCheck(t) \/ LockMark(t))
    /\ lock = "free" => ENABLED LockClearCache
    /\ at = "loop" => ENABLED LockImages

\* one closure is decoding and another is in its debounce sleep, and the lock
\* is free for the interactive thread, which has moved the cursor
C26_Witness ==
    /\ lock = "free"
    /\ index = 1
    /\ \E t, u \in DOMAIN tasks :
           /\ tasks[t].pc = "decoding"
           /\ tasks[u].pc = "sleeping"

\* C38: after any sequence of add_layer and retain calls every key of the
\* layer cache has a layer collection that is not empty and every layer
\* stored under a key has that key as its image_ref, so get_layer of a
\* reference returns none exactly when the reference is no key of the map.
C38_KeysHaveLayers ==
    /\ \A k \in DOMAIN layers :
           /\ layers[k] # <<>>
           /\ \A i \in DOMAIN layers[k] : layers[k][i].image_ref = k
    /\ \A k \in ImageRef :
           /\ (get_layer(layers, k) = <<>>) = (k \notin DOMAIN layers)
           /\ k \in DOMAIN layers => get_layer(layers, k)[1].image_ref = k

\* the second image is the only key, with one THUMBNAIL layer, after the
\* first image had an entry: get_layer finds that layer and none for the
\* first image, and a retain of the first image's requests alone leaves a
\* map without any key
C38_Witness ==
    /\ DOMAIN layers = {images[1]}
    /\ Len(layers[images[1]]) = 1
    /\ layers[images[1]][1].resolution = THUMBNAIL
    /\ get_layer(layers, images[0]) = <<>>
    /\ get_layer(layers, images[1]) = <<layers[images[1]][1]>>
    /\ retain(layers, {native(0), new_request(images[0], THUMBNAIL)}) = EmptyLayers

\* the cursor after the calls of w, each next_image or prev_image, made one
\* after the other on n paths from the cursor idx
RECURSIVE Walk(_, _, _)
Walk(n, idx, w) ==
    IF w = <<>> THEN idx
    ELSE Walk(n,
              IF Head(w) = "next_image" THEN next_image_of(n, idx).index
              ELSE prev_image_of(n, idx).index,
              Tail(w))

\* the sequences of at most n calls of next_image and prev_image
Walks(n) == UNION {[1..k -> {"next_image", "prev_image"}] : k \in 0..n}

\* C37: on a catalog of length L > 0 the cursor is in 0..L-1 after a call of
\* next_image or prev_image and after any sequence of such calls that
\* follows it, next_image followed by prev_image and prev_image followed by
\* next_image leave the cursor where it was, and L calls of next_image in a
\* row bring it back to where it started.
C37_CursorCycles ==
    (call.op \in {"next_image", "prev_image"} /\ call.len > 0) =>
        LET L == call.len
            back == IF call.op = "next_image" THEN "prev_image" ELSE "next_image"
        IN  /\ call.out.index \in 0..(L - 1)
            /\ \A w \in Walks(L) : Walk(L, call.out.index, w) \in 0..(L - 1)
            /\ Walk(L, call.out.index, <<back>>) = call.index
            /\ Walk(L, call.index, <<call.op, back>>) = call.index
            /\ Walk(L, call.index, [k \in 1..L |-> "next_image"]) = call.index
            /\ \A k \in 1..(L - 1) :
                   Walk(L, call.index, [j \in 1..k |-> "next_image"]) # call.index

\* next_image() on three images with the cursor on the last: the cursor
\* wraps to the first, prev_image brings it back to the last, and three
\* calls of next_image from the last end on the last
C37_Witness ==
    /\ call.op = "next_image"
    /\ call.len = 3
    /\ call.index = 2
    /\ call.out.index = 0
    /\ Walk(3, 0, <<"prev_image">>) = 2
    /\ Walk(3, 2, <<"next_image", "next_image", "next_image">>) = 2

\* the sequence cursor, cursor+1, cursor-1, ..., cursor+R, cursor-R with the
\* indices taken modulo L
Alternating(L, idx, R) ==
    [k \in 1..(2 * R + 1) |->
        IF k = 1 THEN idx
        ELSE IF k % 2 = 0 THEN (idx + k \div 2) % L
        ELSE (idx - (k - 1) \div 2) % L]

\* C32, as claimed: get_radius(R) returns the references in the order
\* cursor, cursor+1, cursor-1, cursor+2, cursor-2, ..., cursor+R, cursor-R,
\* the indices taken modulo the catalog length, so that preload submits its
\* requests in order of non-decreasing distance from the cursor.
C32_WindowOrder ==
    /\ (call.op = "get_radius" /\ call.len > 0) =>
           call.out.value = Alternating(call.len, call.index, call.arg)
    /\ (call.op = "preload" /\ call.len > 0) =>
           call.out.requests =
               [k \in 1..(2 * call.arg + 1) |->
                   new_request(Alternating(call.len, call.index, call.arg)[k],
                               NATIVE)]

\* C33, as claimed: the pool has max(p, 2) threads for every parallelism
\* p >= 1 that available_parallelism reports, and when it reports none: never
\* fewer than 2.
C33_PoolAtLeastTwo ==
    call.op = "from_paths" =>
        /\ call.num_threads >= 2
        /\ call.num_threads =
               (IF call.available > 2 THEN call.available ELSE 2)

\* C33, amended: the pool has exactly p threads for every parallelism p >= 1
\* that available_parallelism reports, a single thread when p = 1, and 2
\* threads only when the parallelism cannot be determined; 2 is the value
\* from_paths falls back to, not a minimum.
C33_PoolIsParallelism ==
    call.op = "from_paths" =>
        /\ call.available >= 1 => call.num_threads = call.available
        /\ call.available = 0 => call.num_threads = 2
        /\ call.num_threads >= 1

\* from_paths where one hardware thread is reported: a pool of one thread
C33_Witness ==
    /\ call.op = "from_paths"
    /\ call.available = 1
    /\ call.num_threads = 1

\* C31: a closure that has decoded (to an image or to an error) and finds
\* the channel closed when it sends, the Receiver being dropped, returns
\* without a panic, has delivered nothing and has not inserted Loaded: the
\* table is as it was, its entry still Pending.  With the Receiver alive the
\* same closure delivers its result and inserts Loaded.
C31_ClosedChannelAborts ==
    (/\ call.op = "closure_on"
     /\ call.in_table
     /\ get_rgba_for_path(call.file, call.resolution) # "panic") =>
        /\ call.out.ret = "return"
        /\ ~call.receiver =>
               /\ call.out.sent = <<>>
               /\ ~call.out.marked
        /\ call.receiver =>
               /\ Len(call.out.sent) = 1
               /\ call.out.marked

\* the NATIVE closure of a file that decodes, its request in the table and
\* the Receiver dropped: it returned without the insert
C31_Witness ==
    /\ call.op = "closure_on"
    /\ call.resolution = NATIVE
    /\ call.file = [metadata |-> TRUE, thumbnail |-> TRUE, opens |-> TRUE,
                    jpeg |-> TRUE]
    /\ call.in_table
    /\ ~call.receiver
    /\ call.out = [ret |-> "return", sent |-> <<>>, marked |-> FALSE]

\* the steps a closure can take
ClosureStep(t) ==
    \/ LockStart(t)
    \/ LockWake(t)
    \/ LockForCheck(t)
    \/ LockCheck(t)
    \/ WorkerSend(t)
    \/ LockForMark(t)
    \/ LockMark(t)

\* C36: no state of the interactive thread and the closures is a deadlock.
\* The table lock is held by the interactive thread exactly while it is
\* inside request_image and by a closure exactly while it is in its check or
\* its insert, never by both and never taken by a thread that has it; the
\* holder's next step needs nothing and frees it, also when request_image has
\* the lock while it spawns; with the lock free every thread that waits for
\* it can take it; and whenever a closure has not returned, a closure or the
\* interactive thread can take a step.
C36_NoDeadlock ==
    /\ lock \in {"free", "worker", "main"}
    /\ (lock = "main") = (at = "request_image")
    /\ (lock = "worker") = (Cardinality(Holders) = 1)
    /\ lock = "main" => Holders = {} /\ ENABLED LockRequestImage
    /\ \A t \in Holders : ENABLED (LockCheck(t) \/ LockMark(t))
    /\ lock = "free" =>
           /\ ENABLED LockClearCache
           /\ \A t \in DOMAIN tasks :
                  /\ tasks[t].pc = "woken" => ENABLED LockForCheck(t)
                  /\ tasks[t].pc = "marking" => ENABLED LockForMark(t)
    /\ tasks # <<>> =>
           \/ \E t \in DOMAIN tasks : ENABLED ClosureStep(t)
           \/ ENABLED LockRequestImage
    /\ \A t \in DOMAIN tasks :
           tasks[t].pc # "queued" =>
               \/ ENABLED ClosureStep(t)
               \/ lock # "free"

\* the interactive thread is inside request_image with the table lock, for a
\* request it is about to insert and spawn a closure for, while one closure
\* waits for the lock to make its insert and another to make its check
C36_Witness ==
    /\ lock = "main"
    /\ at = "request_image"
    /\ native(index) \notin DOMAIN cache
    /\ \E t, u \in DOMAIN tasks :
           /\ tasks[t].pc = "marking"
           /\ tasks[u].pc = "woken"

\* C35, as claimed: the viewer never rests, with no closure left, nothing in
\* the channel and no image waiting for add_image, on a cursor whose image
\* decodes and whose NATIVE request is Loaded in the table while the layer
\* cache holds no NATIVE layer of it.
C35_RestingCursorIsShown ==
    (/\ tasks = <<>>
     /\ channel = <<>>
     /\ pending = <<>>
     /\ images[index] \notin Corrupt
     /\ native(index) \in DOMAIN cache
     /\ cache[native(index)] = Loaded) =>
        LayersOf(layers, images[index], NATIVE) # {}

\* C34: with pool threads that run, decodes that return and the channel
\* open, every request that is Pending in the table is later Loaded or out
\* of the table, and whenever closures are outstanding there comes a state
\* where every one of them has returned: no entry stays Pending for ever and
\* no closure runs for ever.
C34_PendingResolves ==
    /\ \A r \in ImageRequest :
           (r \in DOMAIN cache /\ cache[r] = Pending)
               ~> (r \notin DOMAIN cache \/ cache[r] = Loaded)
    /\ (tasks # <<>>) ~> (tasks = <<>>)

\* every closure has returned, the last of them spawned after another had
\* passed its check and while a third was Pending, hence with a sleep; the
\* request of the cursor is Loaded and no entry is Pending
C34_Witness ==
    /\ tasks = <<>>
    /\ spawned = 3
    /\ cache[native(index)] = Loaded
    /\ \A r \in DOMAIN cache : cache[r] = Loaded
    /\ Cardinality(DOMAIN cache) < spawned
====
